---- MODULE Spec2Model ----
(***************************************************************************)
(* Particle in a box: the eigenvalue engine and the degeneracy classifier  *)
(* of basics_quantum_chemistry/basic_models_v2.py (ParticleBox_multiD).    *)
(*                                                                         *)
(* Numbers.  Python computes the energies in binary floating point.  A     *)
(* float is modelled as a normalised rational <<num, den>> whose value is  *)
(* m * 2^e with m < 2^Prec; every arithmetic operation of the source is    *)
(* the exact rational operation followed by Round (round to nearest, ties  *)
(* to even), as IEEE 754 defines it.  The exponent is unbounded: overflow  *)
(* and underflow are outside the model.  Precision 0 stands for exact      *)
(* arithmetic (no rounding).                                               *)
(*                                                                         *)
(* A dict is modelled as the sequence of its <<key, value>> items in       *)
(* insertion order, which is the order Python iterates it in.              *)
(***************************************************************************)
EXTENDS Integers, Sequences, FiniteSets

\* mass, length  the box: self._mass and self._length
\* kind, input   the argument the caller passes to the engine
\* op, arg       the last call made and the argument it was given
\* ret, raised   what that call returned, and the exception it raised
\* eigenvalues   the dict the caller holds, as it is after the last call: the
\*               one calc_multi_eigenvalues returned or determine_degeneracy
\*               was handed (<<>> while it holds none)
VARIABLES mass, length, kind, input, op, arg, ret, raised, eigenvalues

vars == <<mass, length, kind, input, op, arg, ret, raised, eigenvalues>>

\* ---------------------------------------------------------------- bounds
\* Significand bits of the model's floats (53 in CPython).
Prec == 8
\* Largest quantum number and range end a caller passes.
MaxN == 2
\* Largest side length and largest mass a box is built with.
MaxLength == 2
MaxMass == 2
\* Exponents of the model's floats lie in -MaxExponent..MaxExponent.
MaxExponent == 14
\* Boxes have one to three side lengths.
MaxDim == 3
\* scipy.constants.h ** 2 = 0.73979... * 2^-220: its leading eight significand
\* bits. The power of two is dropped; it scales every energy alike.
H2 == 189

\* ------------------------------------------------------------ rationals
RECURSIVE Gcd(_, _)
Gcd(a, b) == IF b = 0 THEN a ELSE Gcd(b, a % b)

Abs(a) == IF a < 0 THEN -a ELSE a

\* The rational n/d (d > 0) in lowest terms.
Norm(n, d) == LET g == Gcd(Abs(n), d) IN <<n \div g, d \div g>>

FromInt(i) == <<i, 1>>
RatAdd(x, y) == Norm(x[1] * y[2] + y[1] * x[2], x[2] * y[2])
RatMul(x, y) == Norm(x[1] * y[1], x[2] * y[2])
RatDiv(x, y) == Norm(x[1] * y[2], x[2] * y[1])
RatLess(x, y) == x[1] * y[2] < y[1] * x[2]

\* The exponent e of n/d > 0: 2^(p-1) * 2^e <= n/d < 2^p * 2^e.
Exponent(p, n, d) ==
    IF n >= 2^(p - 1) * d
    THEN CHOOSE e \in 0..MaxExponent :
            2^(p - 1 + e) * d <= n /\ n < 2^(p + e) * d
    ELSE -(CHOOSE k \in 1..MaxExponent :
            2^(p - 1) * d <= n * 2^k /\ n * 2^k < 2^p * d)

\* The float of p significand bits nearest to x >= 0, ties to even: with
\* x = s * 2^e and 2^(p-1) <= s < 2^p, the integer m nearest to s, times 2^e.
Round(p, x) ==
    IF p = 0 \/ x[1] = 0 THEN x
    ELSE LET e == Exponent(p, x[1], x[2])
             n == IF e >= 0 THEN x[1] ELSE x[1] * 2^(-e)
             d == IF e >= 0 THEN x[2] * 2^e ELSE x[2]
             q == n \div d
             r == n % d
             m == IF 2 * r > d \/ (2 * r = d /\ q % 2 = 1)
                  THEN q + 1 ELSE q
         IN  IF e >= 0 THEN Norm(m * 2^e, 1) ELSE Norm(m, 2^(-e))

FAdd(p, x, y) == Round(p, RatAdd(x, y))
FMul(p, x, y) == Round(p, RatMul(x, y))
FDiv(p, x, y) == Round(p, RatDiv(x, y))

Min(a, b) == IF a < b THEN a ELSE b

\* ------------------------------------------------------ eigenvalue engine
\* A faulty Prefactor: the mass left out.
PrefactorWithoutMass(p, m) == FDiv(p, FromInt(H2), FromInt(8))

\* constants.h ** 2 / (8 * self._mass)
Prefactor(p, m) == FDiv(p, FromInt(H2), FromInt(8 * m))

\* (constants.h ** 2 / (8 * self._mass)) * (spatial_n ** 2 / spatial_length ** 2)
\* as a function of the precision, the mass, the quantum number and the side
\* length it is computed from.
Term[p \in {0, Prec}, m \in 1..(2 * MaxMass), spatial_n \in (-1)..MaxN, spatial_length \in 1..MaxLength] ==
    FMul(p, Prefactor(p, m),
            FDiv(p, FromInt(spatial_n * spatial_n),
                    FromInt(spatial_length * spatial_length)))

\* The loop of calc_single_eigenvalue over the first k pairs of zip(n, L).
RECURSIVE Accumulate(_, _, _, _, _)
Accumulate(p, m, L, n, k) ==
    IF k = 0 THEN FromInt(0)
    ELSE FAdd(p, Accumulate(p, m, L, n, k - 1), Term[p, m, n[k], L[k]])

\* zip stops at the shorter of its two arguments.
Eigenvalue(p, m, L, n) == Accumulate(p, m, L, n, Min(Len(n), Len(L)))

calc_single_eigenvalue(n) == Eigenvalue(Prec, mass, length, n)

\* A faulty Range: range(n_spatial[0], n_spatial[1]), the upper end left out.
RangeExclusive(n_spatial) ==
    IF n_spatial[2] <= n_spatial[1] THEN <<>>
    ELSE [i \in 1..(n_spatial[2] - n_spatial[1]) |-> n_spatial[1] + i - 1]

\* range(n_spatial[0], n_spatial[1] + 1) as the sequence it yields.
Range(n_spatial) ==
    IF n_spatial[2] < n_spatial[1] THEN <<>>
    ELSE [i \in 1..(n_spatial[2] - n_spatial[1] + 1) |-> n_spatial[1] + i - 1]

RECURSIVE PrependEach(_, _, _)
PrependEach(xs, rest, i) ==
    IF i > Len(xs) THEN <<>>
    ELSE [j \in 1..Len(rest) |-> <<xs[i]>> \o rest[j]]
         \o PrependEach(xs, rest, i + 1)

\* itertools.product(*pools): the tuples in the order it yields them (the
\* last pool varies fastest); the product of no pools is one empty tuple.
RECURSIVE Product(_)
Product(pools) ==
    IF pools = <<>> THEN << <<>> >>
    ELSE PrependEach(Head(pools), Product(Tail(pools)), 1)

\* d[key] = value: an existing key keeps its place, a new key goes last.
DictSet(d, key, value) ==
    IF \E i \in DOMAIN d : d[i][1] = key
    THEN [i \in DOMAIN d |-> IF d[i][1] = key THEN <<key, value>> ELSE d[i]]
    ELSE Append(d, <<key, value>>)

RECURSIVE Fill(_, _)
Fill(keys, k) ==
    IF k = 0 THEN <<>>
    ELSE DictSet(Fill(keys, k - 1), keys[k], calc_single_eigenvalue(keys[k]))

calc_multi_eigenvalues(n_i) ==
    LET keys == Product([d \in DOMAIN n_i |-> Range(n_i[d])])
    IN  Fill(keys, Len(keys))

\* -------------------------------------------------- degeneracy classifier
Values(d) == {d[i][2] : i \in DOMAIN d}
Keys(d) == {d[i][1] : i \in DOMAIN d}

\* sorted(S) for a set S of floats.
RECURSIVE Sorted(_)
Sorted(S) ==
    IF S = {} THEN <<>>
    ELSE LET least == CHOOSE x \in S : \A y \in S : ~RatLess(y, x)
         IN  <<least>> \o Sorted(S \ {least})

\* A faulty _determine_discrete_eigenvalues: sorted(eigenvalues.values()),
\* the values not made a set first.
RECURSIVE InsertSorted(_, _)
InsertSorted(s, x) ==
    IF s = <<>> THEN <<x>>
    ELSE IF RatLess(x, Head(s)) THEN <<x>> \o s
         ELSE <<Head(s)>> \o InsertSorted(Tail(s), x)

RECURSIVE SortedValues(_, _)
SortedValues(d, k) ==
    IF k = 0 THEN <<>> ELSE InsertSorted(SortedValues(d, k - 1), d[k][2])

DiscreteWithDuplicates(d) == SortedValues(d, Len(d))

\* A faulty _determine_discrete_eigenvalues: the distinct values in the
\* dict's order, never sorted.
RECURSIVE FirstSeen(_, _)
FirstSeen(d, k) ==
    IF k = 0 THEN <<>>
    ELSE LET before == FirstSeen(d, k - 1)
         IN  IF \E j \in DOMAIN before : before[j] = d[k][2]
             THEN before ELSE Append(before, d[k][2])

DiscreteUnsorted(d) == FirstSeen(d, Len(d))

_determine_discrete_eigenvalues(d) == Sorted(Values(d))

\* A faulty SameQuantumStates: the matching states collected last to first.
RECURSIVE SameQuantumStatesBackwards(_, _, _)
SameQuantumStatesBackwards(d, i, k) ==
    IF k = 0 THEN <<>>
    ELSE IF d[k][2] = i
         THEN <<d[k][1]>> \o SameQuantumStatesBackwards(d, i, k - 1)
         ELSE SameQuantumStatesBackwards(d, i, k - 1)

\* [state for state, value in eigenvalues.items() if value == i]
RECURSIVE SameQuantumStates(_, _, _)
SameQuantumStates(d, i, k) ==
    IF k = 0 THEN <<>>
    ELSE IF d[k][2] = i
         THEN Append(SameQuantumStates(d, i, k - 1), d[k][1])
         ELSE SameQuantumStates(d, i, k - 1)

determine_degeneracy(d) ==
    LET discrete_eigenvalues == _determine_discrete_eigenvalues(d)
    IN  [g \in DOMAIN discrete_eigenvalues |->
            LET same_quantum_states ==
                    SameQuantumStates(d, discrete_eigenvalues[g], Len(d))
            IN  <<discrete_eigenvalues[g],
                  Len(same_quantum_states),
                  same_quantum_states>>]

\* ------------------------------------------------------------- the inputs
\* Tuples of 1..MaxDim components drawn from S.
Tuples(S) == UNION {[1..k -> S] : k \in 1..MaxDim}

\* The components of a state a caller passes, negative ones included.
QuantumNumbers == (-1)..MaxN
\* The [min, max] pairs a caller passes, those with min > max included.
RangePairs == {<<lo, lo + w>> : lo \in 0..(MaxN - 1), w \in (-1)..1}

Reverse(s) == [i \in DOMAIN s |-> s[Len(s) + 1 - i]]

\* ------------------------------------------------------------ the machine
\* box = ParticleBox_multiD(mass, length), and the argument the caller is
\* about to pass: a state (kind "state") or a tuple of ranges ("ranges").
Init ==
    /\ mass \in 1..MaxMass
    /\ length \in Tuples(1..MaxLength)
    /\ \/ kind = "state" /\ input \in Tuples(QuantumNumbers)
       \/ kind = "ranges" /\ input \in Tuples(RangePairs)
    /\ op = "init"
    /\ arg = <<>>
    /\ ret = <<>>
    /\ raised = "none"
    /\ eigenvalues = <<>>

\* box.calc_single_eigenvalue(n)
CalcSingle(n) ==
    /\ op' = "single"
    /\ arg' = n
    /\ ret' = calc_single_eigenvalue(n)
    /\ raised' = "none"
    /\ UNCHANGED <<mass, length, kind, input, eigenvalues>>

\* eigenvalues = box.calc_multi_eigenvalues(*n_i)
CalcMulti(n_i) ==
    /\ op' = "multi"
    /\ arg' = n_i
    /\ ret' = calc_multi_eigenvalues(n_i)
    /\ raised' = "none"
    /\ eigenvalues' = ret'
    /\ UNCHANGED <<mass, length, kind, input>>

\* A faulty determine_degeneracy: it pops the items it has grouped off the
\* dict it was handed.
DetermineDegeneracyConsuming(d) ==
    /\ op' = "classify"
    /\ arg' = d
    /\ ret' = determine_degeneracy(d)
    /\ raised' = "none"
    /\ eigenvalues' = <<>>
    /\ UNCHANGED <<mass, length, kind, input>>

\* box.determine_degeneracy(d); the dict is read, never written.
DetermineDegeneracy(d) ==
    /\ op' = "classify"
    /\ arg' = d
    /\ ret' = determine_degeneracy(d)
    /\ raised' = "none"
    /\ eigenvalues' = d
    /\ UNCHANGED <<mass, length, kind, input>>

\* The dicts a caller hands to the classifier: the one it holds, or one with
\* the same items inserted in the opposite order.
CallerDicts == {eigenvalues, Reverse(eigenvalues)}

Next ==
    \/ kind = "state" /\ CalcSingle(input)
    \/ kind = "ranges" /\ CalcMulti(input)
    \/ /\ op \in {"multi", "classify"}
       /\ \E d \in CallerDicts : DetermineDegeneracy(d)

Spec == Init /\ [][Next]_vars

\* ------------------------------------------------------------- the claims
\* Python's order on tuples: the first differing component decides, and a
\* proper prefix comes first.
LexLess(a, b) ==
    \/ \E k \in 1..Min(Len(a), Len(b)) :
          /\ a[k] < b[k]
          /\ \A j \in 1..(k - 1) : a[j] = b[j]
    \/ /\ Len(a) < Len(b)
       /\ \A j \in 1..Len(a) : a[j] = b[j]

Ascending(states) ==
    \A i \in 1..(Len(states) - 1) : LexLess(states[i], states[i + 1])

\* The keys of a dict in insertion order.
KeySeq(d) == [i \in DOMAIN d |-> d[i][1]]

ValidRanges(n_i) == \A d \in DOMAIN n_i : 0 <= n_i[d][1] /\ n_i[d][1] <= n_i[d][2]

\* The Cartesian product of the ranges, as a set of tuples.
Cartesian(n_i) ==
    {t \in [DOMAIN n_i -> 0..(MaxN + 1)] :
        \A d \in DOMAIN n_i : n_i[d][1] <= t[d] /\ t[d] <= n_i[d][2]}

RECURSIVE Cardinalities(_, _)
Cardinalities(n_i, k) ==
    IF k = 0 THEN 1
    ELSE (n_i[k][2] - n_i[k][1] + 1) * Cardinalities(n_i, k - 1)

\* C1: for ranges with 0 <= min_d <= max_d, the table the eigenvalue-range
\* operation returns has exactly the tuples of the Cartesian product of the
\* ranges as its keys, each once, prod (max_d - min_d + 1) of them.
C1_CartesianKeys ==
    (op = "multi" /\ ValidRanges(arg)) =>
        /\ Keys(ret) = Cartesian(arg)
        /\ Len(ret) = Cardinality(Keys(ret))
        /\ Len(ret) = Cardinalities(arg, Len(arg))

C1_Witness ==
    /\ op = "multi"
    /\ ValidRanges(arg)
    /\ Len(arg) = 3
    /\ Len(ret) = 8

\* The places <<g, j>> of the classifier's result where a state is listed.
Places(groups, state) ==
    {<<g, j>> \in (DOMAIN groups) \X (1..Len(arg)) :
        j <= Len(groups[g][3]) /\ groups[g][3][j] = state}

RECURSIVE Multiplicities(_, _)
Multiplicities(groups, g) ==
    IF g = 0 THEN 0 ELSE groups[g][2] + Multiplicities(groups, g - 1)

\* C2: the groups the classifier returns partition the table's keys: the
\* multiplicities add up to the number of keys, each multiplicity is the
\* number of members listed, every key is listed at exactly one place and
\* nothing but a key is listed.
C2_GroupsPartitionKeys ==
    op = "classify" =>
        /\ Multiplicities(ret, Len(ret)) = Len(arg)
        /\ \A g \in DOMAIN ret : ret[g][2] = Len(ret[g][3])
        /\ \A i \in DOMAIN arg : Cardinality(Places(ret, arg[i][1])) = 1
        /\ \A g \in DOMAIN ret : \A j \in DOMAIN ret[g][3] :
              ret[g][3][j] \in Keys(arg)

C2_Witness ==
    /\ op = "classify"
    /\ Len(length) = 3
    /\ \A i \in DOMAIN arg : Len(arg[i][1]) = 3
    /\ Len(ret) >= 2
    /\ \E g \in DOMAIN ret : ret[g][2] >= 2

\* C3: the energies of consecutive groups are strictly increasing.
C3_EnergiesStrictlyIncreasing ==
    op = "classify" =>
        \A g \in 1..(Len(ret) - 1) : RatLess(ret[g][1], ret[g + 1][1])

C3_Witness ==
    /\ op = "classify"
    /\ Len(length) = 2
    /\ \A i \in DOMAIN arg : Len(arg[i][1]) = 2
    /\ Len(ret) >= 3
    /\ Len(arg) > Len(ret)

\* The relative tolerance of the comparison: one unit in the last place.
Tolerance == <<1, 2^(Prec - 1)>>

WithinTolerance(x, y) ==
    LET hi == IF RatLess(x, y) THEN y ELSE x
        lo == IF RatLess(x, y) THEN x ELSE y
    IN  ~RatLess(RatMul(Tolerance, hi), RatAdd(hi, <<-lo[1], lo[2]>>))

\* The group a key of the table is listed in.
GroupOf(groups, state) ==
    CHOOSE g \in DOMAIN groups :
        \E j \in DOMAIN groups[g][3] : groups[g][3][j] = state

\* C4: two states whose energies differ by no more than the tolerance are
\* in the same group, and no two groups have energies within the tolerance
\* of each other.
C4_ToleranceGrouping ==
    op = "classify" =>
        /\ \A i, j \in DOMAIN arg :
              WithinTolerance(arg[i][2], arg[j][2]) =>
                  GroupOf(ret, arg[i][1]) = GroupOf(ret, arg[j][1])
        /\ \A g, h \in DOMAIN ret :
              g # h => ~WithinTolerance(ret[g][1], ret[h][1])

C6_EmptyRangeRaises ==
    (op = "multi" /\ \E d \in DOMAIN arg : arg[d][1] > arg[d][2]) =>
        raised = "EmptyRange"

\* C7: a state, or a tuple of ranges, whose length differs from the number
\* of side lengths makes the operation fail with DimensionMismatch.
C7_DimensionMismatchRaises ==
    (op \in {"single", "multi"} /\ Len(arg) # Len(length)) =>
        raised = "DimensionMismatch"

\* C8: a state with a negative quantum number makes the single-eigenvalue
\* operation fail with InvalidQuantumNumber; a state without one is accepted.
C8_NegativeQuantumNumberRaises ==
    op = "single" =>
        IF \E d \in DOMAIN arg : arg[d] < 0
        THEN raised = "InvalidQuantumNumber"
        ELSE raised = "none"

\* C9: the eigenvalue is inversely proportional to the mass: the eigenvalue
\* of the box is exactly twice the one computed with twice the box's mass,
\* for the value the operation returns and in exact arithmetic alike.
C9_HalvingMassDoublesEigenvalue ==
    op = "single" =>
        /\ ret = RatMul(FromInt(2), Eigenvalue(Prec, 2 * mass, length, arg))
        /\ RatMul(FromInt(mass), ret)
              = RatMul(FromInt(2 * mass),
                       Eigenvalue(Prec, 2 * mass, length, arg))
        /\ RatMul(FromInt(mass), Eigenvalue(0, mass, length, arg))
              = RatMul(FromInt(2 * mass), Eigenvalue(0, 2 * mass, length, arg))

C9_Witness ==
    /\ op = "single"
    /\ Len(arg) = Len(length)
    /\ Len(arg) >= 2
    /\ \A d \in DOMAIN arg : arg[d] >= 1
    /\ \E d \in DOMAIN length : length[d] > 1
    /\ ret # FromInt(0)

====
